---- MODULE Spec2Model ----
(***************************************************************************)
(* State-machine model of the core of Lactate_MFA (src/new_model_main.py,  *)
(* src/config.py): the constraint builders, the feasible start point       *)
(* generator, the single-case solver with its per-case hook adapter, and   *)
(* the parallel sweep.                                                     *)
(*                                                                         *)
(* Conventions.  A numpy vector is a sequence (positions 1..n stand for    *)
(* Python's 0..n-1).  A Python dict is the sequence of its items in        *)
(* insertion order, each item a pair <<key, value>>; {} is <<>>.  None is  *)
(* the empty sequence.  Floats are integers; np.nan is the code NaN, and   *)
(* every float comparison goes through FloatLt so that a comparison with   *)
(* NaN is false, as in Python.                                             *)
(***************************************************************************)
EXTENDS Integers, Sequences, FiniteSets, TLC

\* ------------------------------------------------------------------------
\* Program constants and model bounds
\* ------------------------------------------------------------------------

\* start_point_generator(..., maximal_failed_time=10)
maximal_failed_time == 10

\* obj_value = 999999, the failure sentinel of one_case_solver_slsqp
SentinelObj == 999999

\* np.nan (a code outside the range of every modelled float)
NaN == -1000000

\* Largest optimization_repeat_time drawn for a case.
MaxRepeat == 2

None == <<>>

\* complete_flux_dict.keys() in insertion order; complete_flux_dict[name] is
\* the position of name in it.
FluxNames == <<"f1", "f2">>

Range(s) == {s[i] : i \in 1..Len(s)}

FluxIndex(keys, flux_name) == CHOOSE i \in 1..Len(keys) : keys[i] = flux_name

Abs(v) == IF v < 0 THEN -v ELSE v

SetMin(S) == CHOOSE v \in S : \A w \in S : v <= w

SetMax(S) == CHOOSE v \in S : \A w \in S : w <= v

\* a < b on floats: false as soon as one side is NaN.
FloatLt(a, b) == a # NaN /\ b # NaN /\ a < b

\* a - b on floats: NaN as soon as one side is NaN.
FloatSub(a, b) == IF a = NaN \/ b = NaN THEN NaN ELSE a - b

RECURSIVE DotFrom(_, _, _)
DotFrom(u, v, i) == IF i > Len(u) THEN 0 ELSE u[i] * v[i] + DotFrom(u, v, i + 1)

\* u @ v for two vectors of the same length
Dot(u, v) == DotFrom(u, v, 1)

\* np.zeros(n)
Zeros(n) == [i \in 1..n |-> 0]

\* ------------------------------------------------------------------------
\* Constraint builders
\* ------------------------------------------------------------------------

\* for flux_name, value in zip(flux_name_list, value_list):
\*     new_balance_array[complete_flux_dict[flux_name]] = value
RECURSIVE AssignEach(_, _, _, _, _)
AssignEach(row, keys, flux_name_list, value_list, k) ==
    IF k > Len(flux_name_list) THEN row
    ELSE AssignEach([row EXCEPT ![FluxIndex(keys, flux_name_list[k])] = value_list[k]],
                    keys, flux_name_list, value_list, k + 1)

\* A variant of BalanceRow: the two signs are exchanged.
BalanceRowSignsExchanged(balance_dict, keys) ==
    LET flux_name_list == balance_dict.input \o balance_dict.output
        value_list == [k \in 1..Len(balance_dict.input) |-> 1]
                      \o [k \in 1..Len(balance_dict.output) |-> -1]
    IN  AssignEach(Zeros(Len(keys)), keys, flux_name_list, value_list, 1)

\* The row of one balance_dict: -1 assigned for each input, then +1 assigned
\* for each output, in list order (an assignment, not an accumulation).
BalanceRow(balance_dict, keys) ==
    LET flux_name_list == balance_dict.input \o balance_dict.output
        value_list == [k \in 1..Len(balance_dict.input) |-> -1]
                      \o [k \in 1..Len(balance_dict.output) |-> 1]
    IN  AssignEach(Zeros(Len(keys)), keys, flux_name_list, value_list, 1)

\* flux_balance_constraint_constructor: one row and one 0 per balance_dict
flux_balance_constraint_constructor(balance_list, keys) ==
    [matrix |-> [r \in 1..Len(balance_list) |-> BalanceRow(balance_list[r], keys)],
     vector |-> [r \in 1..Len(balance_list) |-> 0]]

\* constant_flux_constraint_constructor: per item a row with 1 at the flux's
\* index and the stored constant -value
constant_flux_constraint_constructor(constant_flux_dict, keys) ==
    [matrix |-> [r \in 1..Len(constant_flux_dict) |->
                    [Zeros(Len(keys)) EXCEPT ![FluxIndex(keys, constant_flux_dict[r][1])] = 1]],
     vector |-> [r \in 1..Len(constant_flux_dict) |-> -(constant_flux_dict[r][2])]]

\* config.bound_pair_generator with special_bound_dict = None
bound_pair_generator(min_flux_value, max_flux_value, flux_list) ==
    <<[i \in 1..Len(flux_list) |-> min_flux_value],
      [i \in 1..Len(flux_list) |-> max_flux_value]>>

\* eq_func: complete_balance_matrix @ x + complete_balance_vector
eq_func(complete_balance_matrix, complete_balance_vector, x) ==
    [r \in 1..Len(complete_balance_matrix) |->
        Dot(complete_balance_matrix[r], x) + complete_balance_vector[r]]

\* ------------------------------------------------------------------------
\* start_point_generator: one linear program per attempt
\* ------------------------------------------------------------------------

\* np.random.random(n) * 4 + 1 lies in [1, 5): its integer samples
LowerShift == 1..4

\* raw_ub * (np.random.random() * 0.2 + 0.8): the integers u * t, 0.8 <= t < 1
UpperScaled(u) ==
    {y \in -Abs(u)..Abs(u) :
        \/ u > 0 /\ 8 * u <= 10 * y /\ y < u
        \/ u < 0 /\ u < y /\ 10 * y <= 8 * u
        \/ u = 0 /\ y = 0}

\* np.random.random(n) - 0.4 lies in [-0.4, 0.6): samples, in tenths
ObjCoefficients == {-4, 5}

\* lp_lb = raw_lb + np.random.random(num_variable) * 4 + 1
LpLowerBounds(raw_lb) ==
    {[i \in 1..Len(raw_lb) |-> raw_lb[i] + s[i]] : s \in [1..Len(raw_lb) -> LowerShift]}

\* lp_ub = raw_ub * (np.random.random(num_variable) * 0.2 + 0.8)
LpUpperBounds(raw_ub) ==
    LET values == UNION {UpperScaled(raw_ub[i]) : i \in 1..Len(raw_ub)}
    IN  {u \in [1..Len(raw_ub) -> values] : \A i \in 1..Len(raw_ub) : u[i] \in UpperScaled(raw_ub[i])}

\* The vectors <<x[i], ..., x[n]>> with lp_lb[j] <= x[j] <= lp_ub[j]
RECURSIVE Box(_, _, _)
Box(lp_lb, lp_ub, i) ==
    IF i > Len(lp_lb) THEN {<<>>}
    ELSE {<<v>> \o rest : v \in lp_lb[i]..lp_ub[i], rest \in Box(lp_lb, lp_ub, i + 1)}

\* The points of the linear program's feasible set: a_eq @ x = b_eq and
\* lp_lb <= x <= lp_ub.
LpFeasible(a_eq, b_eq, lp_lb, lp_ub) ==
    {x \in Box(lp_lb, lp_ub, 1) : \A r \in 1..Len(a_eq) : Dot(a_eq[r], x) = b_eq[r]}

\* scipy.optimize.linprog(random_obj, A_eq, b_eq, bounds): the outcomes of one
\* call, feasible being the program's feasible set.  A bound pair with
\* lower > upper raises ValueError or is reported infeasible, depending on the
\* scipy build; an infeasible program is unsuccessful; a feasible one returns
\* a minimiser of random_obj @ x, or is unsuccessful for numerical reasons.
linprog(random_obj, feasible, lp_lb, lp_ub) ==
    LET optimal == {x \in feasible : \A y \in feasible : Dot(random_obj, x) <= Dot(random_obj, y)}
        failure == [raised |-> FALSE, success |-> FALSE, x |-> None]
    IN  IF \E i \in 1..Len(lp_lb) : lp_lb[i] > lp_ub[i]
        THEN {[raised |-> TRUE, success |-> FALSE, x |-> None], failure}
        ELSE {[raised |-> FALSE, success |-> TRUE, x |-> x] : x \in optimal} \cup {failure}

\* The linprog outcomes of one attempt, over the random objective and the
\* random perturbations of the two bounds.
LpOutcomes(a_eq, b_eq, raw_lb, raw_ub) ==
    UNION {LET feasible == LpFeasible(a_eq, b_eq, lp_lb, lp_ub)
           IN  UNION {linprog(random_obj, feasible, lp_lb, lp_ub) :
                         random_obj \in [1..Len(raw_lb) -> ObjCoefficients]} :
              lp_lb \in LpLowerBounds(raw_lb), lp_ub \in LpUpperBounds(raw_ub)}

\* A variant of start_point_step: a failed attempt is not counted.
StartPointStepUncounted(failed, res) ==
    IF ~res.raised /\ res.success
    THEN [failed_time |-> failed, done |-> TRUE, result |-> res.x]
    ELSE [failed_time |-> failed, done |-> FALSE, result |-> None]

\* One pass of the body of "while failed_time < maximal_failed_time": the
\* generator's state after the linprog outcome res.  done says that the loop is
\* left (break on success, or the budget is used up); result is what the call
\* then returns.
start_point_step(failed, res) ==
    IF ~res.raised /\ res.success
    THEN [failed_time |-> failed, done |-> TRUE, result |-> res.x]
    ELSE [failed_time |-> failed + 1,
          done |-> ~(failed + 1 < maximal_failed_time),
          result |-> None]

\* ------------------------------------------------------------------------
\* one_case_solver_slsqp and the per-case hook adapter
\* ------------------------------------------------------------------------

\* A variant of Result: the label is left at its default.
ResultWithoutLabel(res_dict, obj, succ, minimal_obj_value, lab) ==
    [result_dict |-> res_dict, obj_value |-> obj, success |-> succ,
     minimal_obj_value |-> minimal_obj_value, label |-> "None"]

\* config.Result
Result(res_dict, obj, succ, minimal_obj_value, lab) ==
    [result_dict |-> res_dict, obj_value |-> obj, success |-> succ,
     minimal_obj_value |-> minimal_obj_value, label |-> lab]

\* A variant of FailureSentinel: the failure path leaves the objective at 0.
FailureSentinelZeroObjective == [result_dict |-> <<>>, obj_value |-> 0, success |-> FALSE]

\* result_dict = {}; obj_value = 999999; success = False
FailureSentinel == [result_dict |-> <<>>, obj_value |-> SentinelObj, success |-> FALSE]

\* {flux_name: flux_value for flux_name, flux_value in zip(keys, vector)}
ZipDict(keys, vector) ==
    [i \in 1..(IF Len(keys) < Len(vector) THEN Len(keys) ELSE Len(vector)) |->
        <<keys[i], vector[i]>>]

\* A variant of FirstStartBranch: the fitted flag is not consulted.
FirstStartBranchAlwaysFitted(start, is_fitted) ==
    IF start = None THEN "failure" ELSE "fitted"

\* if start_vector is None: ... else: if not fitted: ... else: ...
FirstStartBranch(start, is_fitted) ==
    IF start = None THEN "failure"
    ELSE IF ~is_fitted THEN "unfitted"
    ELSE "fitted"

\* A variant of IsBetter: the optimizer's success flag is not consulted.
IsBetterIgnoringSuccess(current_result, best_obj_value) ==
    FloatLt(current_result.fun, best_obj_value)

\* current_result.success and current_result.fun < obj_value
IsBetter(current_result, best_obj_value) ==
    current_result.success /\ FloatLt(current_result.fun, best_obj_value)

\* What the objective, and the optimizer's objective at its end point, can
\* evaluate to: small values, a value not below the sentinel, and NaN.
FunValues == {0, 1, SentinelObj, NaN}

\* End points the optimizer can report.
OptimizerPoints == {<<1, 1>>, <<2, 2>>}

\* scipy.optimize.minimize(..., method='SLSQP'): the results of one run.
MinimizeResults ==
    [success : {TRUE}, fun : FunValues, x : OptimizerPoints]
    \cup [success : {FALSE}, fun : {0, NaN}, x : {<<1, 1>>}]

\* What the contribution hook can do when called: raise, or return a pair
\* (valid, contribution_dict).
HookOutcomes ==
    [raised : {TRUE}, valid : {FALSE}, contribution_dict : {"none"}]
    \cup [raised : {FALSE}, valid : BOOLEAN, contribution_dict : {"breakdown"}]

\* A variant of HookCall: empty=True is never passed.
HookCallNeverEmpty(result) == [flux |-> result.result_dict, empty |-> FALSE]

\* result_processing_each_iteration_template: the call made to the hook
HookCall(result) ==
    IF result.success
    THEN [flux |-> result.result_dict, empty |-> FALSE]
    ELSE [flux |-> result.result_dict, empty |-> TRUE]

\* result_processing_each_iteration_template: processed_dict once the hook has
\* returned hook_return
result_processing_each_iteration_template(result, hook_return) ==
    << <<"obj_diff", IF result.success
                     THEN FloatSub(result.obj_value, result.minimal_obj_value)
                     ELSE NaN>>,
       <<"valid", hook_return.valid>>,
       <<"contribution_dict", hook_return.contribution_dict>> >>

\* Inputs of a case
LowerValues == {-6, 0, 6}

UpperValues == {-5, 0, 5}

ConstantValues == {-4, 3}

Labels == {"None", "sweep"}

OptimalValues == {1}

BalanceLists == {<<>>, <<[input |-> <<"f1">>, output |-> <<"f2">>]>>}

ConstantFluxDicts ==
    {<<>>} \cup {<< <<f, v>> >> : f \in Range(FluxNames), v \in ConstantValues}

\* np.vstack([flux_balance_matrix, constant_flux_matrix]) and
\* np.hstack([flux_balance_constant_vector, constant_constant_vector])
CompleteBalance(balances, constant_fluxes) ==
    LET fb == flux_balance_constraint_constructor(balances, FluxNames)
        cf == constant_flux_constraint_constructor(constant_fluxes, FluxNames)
    IN  [matrix |-> fb.matrix \o cf.matrix, vector |-> fb.vector \o cf.vector,
         stackable |-> Len(fb.matrix) > 0 /\ Len(cf.matrix) > 0]

\* A variant of Negated: the stored vector is handed to the LP as it is.
NotNegated(vector) == vector

\* b_eq = -complete_balance_vector
Negated(vector) == [r \in 1..Len(vector) |-> -(vector[r])]

VARIABLES
    \* one case (parallel_solver_single)
    balance_list, constant_flux_dict, bounds, optimization_repeat_time, label,
    fitted, optimal_obj_value,
    complete_balance_matrix, complete_balance_vector,
    pc, caller, failed_time, start_vector, iteration,
    result_dict, obj_value, success, result, processed_dict,
    \* history of the calls made (not read by the program)
    generator_returns, lp_calls, minimize_history, objective_calls, hook_calls,
    \* flux_balance_constraint_constructor
    builder_pc, flux_balance_multiply_array_list, flux_balance_constant_vector_list,
    \* mid_constraint_constructor
    mid_constraint_list, mid_pc, substrate_mid_matrix_list, flux_sum_matrix_list,
    target_mid_vector_list, mid_result,
    \* parallel_solver
    parallel_num_arg, cpu_count, var_parameter_list, is_list, iter_length,
    main_pc, parallel_num, total_length, chunks, raw_result_list,
    output_direct_exists, hook_after_all_iterations_calls,
    \* history of the pool (not read by the program)
    solve_count, raised_cases, completion_order

caseInputs == <<balance_list, constant_flux_dict, bounds, optimization_repeat_time,
                label, fitted, optimal_obj_value>>

caseVars == <<caseInputs, complete_balance_matrix, complete_balance_vector,
              pc, caller, failed_time, start_vector, iteration,
              result_dict, obj_value, success, result, processed_dict,
              generator_returns, lp_calls, minimize_history, objective_calls, hook_calls>>

builderVars == <<builder_pc, flux_balance_multiply_array_list,
                 flux_balance_constant_vector_list>>

sweepInputs == <<parallel_num_arg, cpu_count, var_parameter_list, is_list, iter_length>>

sweepVars == <<sweepInputs, main_pc, parallel_num, total_length, chunks, raw_result_list,
               output_direct_exists, hook_after_all_iterations_calls,
               solve_count, raised_cases, completion_order>>

midVars == <<mid_constraint_list, mid_pc, substrate_mid_matrix_list, flux_sum_matrix_list,
             target_mid_vector_list, mid_result>>

vars == <<caseVars, builderVars, midVars, sweepVars>>

\* No mid_constraint_constructor call is modelled.
MidIdle ==
    /\ mid_constraint_list = <<>>
    /\ mid_pc = "idle"
    /\ substrate_mid_matrix_list = <<>>
    /\ flux_sum_matrix_list = <<>>
    /\ target_mid_vector_list = <<>>
    /\ mid_result = None

\* No sweep is modelled.
SweepIdle ==
    /\ parallel_num_arg = <<1>>
    /\ cpu_count = 1
    /\ var_parameter_list = <<>>
    /\ is_list = TRUE
    /\ iter_length = 0
    /\ main_pc = "idle"
    /\ parallel_num = 1
    /\ total_length = 0
    /\ chunks = <<>>
    /\ raw_result_list = <<>>
    /\ output_direct_exists = FALSE
    /\ hook_after_all_iterations_calls = <<>>
    /\ solve_count = <<>>
    /\ raised_cases = {}
    /\ completion_order = <<>>

\* No constructor call is modelled.
BuilderIdle ==
    /\ builder_pc = "idle"
    /\ flux_balance_multiply_array_list = <<>>
    /\ flux_balance_constant_vector_list = <<>>

CaseInit ==
    /\ MidIdle
    /\ BuilderIdle
    /\ SweepIdle
    /\ balance_list \in BalanceLists
    /\ constant_flux_dict \in ConstantFluxDicts
    /\ \E lo \in LowerValues, hi \in UpperValues :
            bounds = bound_pair_generator(lo, hi, FluxNames)
    /\ optimization_repeat_time \in 0..MaxRepeat
    /\ label \in Labels
    /\ fitted \in BOOLEAN
    /\ optimal_obj_value \in OptimalValues
    /\ complete_balance_matrix = <<>>
    /\ complete_balance_vector = <<>>
    /\ pc = "assemble"
    /\ caller = "none"
    /\ failed_time = 0
    /\ start_vector = None
    /\ iteration = 0
    /\ result_dict = <<>>
    /\ obj_value = 0
    /\ success = FALSE
    /\ result = None
    /\ processed_dict = None
    /\ generator_returns = <<>>
    /\ lp_calls = 0
    /\ minimize_history = <<>>
    /\ objective_calls = <<>>
    /\ hook_calls = <<>>

\* start_vector = start_point_generator(...): the call (result = None;
\* failed_time = 0)
CallGenerator(from) ==
    /\ pc' = "lp"
    /\ caller' = from
    /\ failed_time' = 0
    /\ lp_calls' = 0

\* one_case_solver_slsqp up to its first start_point_generator call.
\* np.vstack raises ValueError when one of the two row lists is empty (the
\* empty list becomes an array of shape (0,), which does not stack on n
\* columns); with both empty the bound perturbation raw_lb + random(0) fails to
\* broadcast.  Either way the exception leaves the solver.
Assemble ==
    /\ pc = "assemble"
    /\ LET complete == CompleteBalance(balance_list, constant_flux_dict)
       IN  IF ~complete.stackable
           THEN /\ pc' = "raised"
                /\ UNCHANGED <<complete_balance_matrix, complete_balance_vector,
                               caller, failed_time, lp_calls>>
           ELSE /\ complete_balance_matrix' = complete.matrix
                /\ complete_balance_vector' = complete.vector
                /\ CallGenerator("first")
    /\ UNCHANGED <<builderVars, midVars, sweepVars, caseInputs, start_vector, iteration, result_dict, obj_value, success,
                   result, processed_dict, generator_returns, minimize_history,
                   objective_calls, hook_calls>>

\* start_point_generator: one pass of its while loop
LpAttempt ==
    /\ pc = "lp"
    /\ failed_time < maximal_failed_time
    /\ \E res \in LpOutcomes(complete_balance_matrix, Negated(complete_balance_vector),
                              bounds[1], bounds[2]) :
          LET step == start_point_step(failed_time, res)
          IN  /\ failed_time' = step.failed_time
              /\ lp_calls' = lp_calls + 1
              /\ IF step.done
                 THEN /\ pc' = "gen_done"
                      /\ start_vector' = step.result
                      /\ generator_returns' = Append(generator_returns, step.result)
                 ELSE /\ pc' = "lp"
                      /\ UNCHANGED <<start_vector, generator_returns>>
    /\ UNCHANGED <<builderVars, midVars, sweepVars, caseInputs, complete_balance_matrix, complete_balance_vector, caller,
                   iteration, result_dict, obj_value, success, result, processed_dict,
                   minimize_history, objective_calls, hook_calls>>

\* one_case_solver_slsqp after its first start_point_generator call: the
\* failure sentinel, the unfitted result, or the start of the fitted loop.
\* The generator's frame (failed_time, the count of its linprog calls) is gone
\* once the caller has taken its return value.
AfterFirstStart ==
    /\ pc = "gen_done"
    /\ caller = "first"
    /\ IF FirstStartBranch(start_vector, fitted) = "failure"
       THEN /\ result_dict' = FailureSentinel.result_dict
            /\ obj_value' = FailureSentinel.obj_value
            /\ success' = FailureSentinel.success
            /\ pc' = "return"
            /\ UNCHANGED objective_calls
       ELSE IF FirstStartBranch(start_vector, fitted) = "unfitted"
       THEN \E value \in FunValues :
            /\ objective_calls' = Append(objective_calls, [at |-> start_vector, value |-> value])
            /\ obj_value' = value
            /\ success' = TRUE
            /\ result_dict' = ZipDict(FluxNames, start_vector)
            /\ pc' = "return"
       ELSE /\ result_dict' = FailureSentinel.result_dict
            /\ success' = FailureSentinel.success
            /\ obj_value' = FailureSentinel.obj_value
            /\ pc' = "loop"
            /\ UNCHANGED objective_calls
    /\ iteration' = 0
    /\ failed_time' = 0
    /\ lp_calls' = 0
    /\ UNCHANGED <<builderVars, midVars, sweepVars, caseInputs, complete_balance_matrix, complete_balance_vector, caller,
                   start_vector, result, processed_dict, generator_returns,
                   minimize_history, hook_calls>>

\* for _ in range(optimization_repeat_time): the next pass calls the
\* generator; the loop ends after optimization_repeat_time passes.
LoopHead ==
    /\ pc = "loop"
    /\ IF iteration < optimization_repeat_time
       THEN CallGenerator("iteration")
       ELSE /\ pc' = "return"
            /\ UNCHANGED <<caller, failed_time, lp_calls>>
    /\ UNCHANGED <<builderVars, midVars, sweepVars, caseInputs, complete_balance_matrix, complete_balance_vector,
                   start_vector, iteration, result_dict, obj_value, success, result,
                   processed_dict, generator_returns, minimize_history, objective_calls,
                   hook_calls>>

\* if start_vector is None: continue
AfterIterationStart ==
    /\ pc = "gen_done"
    /\ caller = "iteration"
    /\ IF start_vector = None
       THEN /\ iteration' = iteration + 1
            /\ pc' = "loop"
       ELSE /\ pc' = "minimize"
            /\ UNCHANGED iteration
    /\ failed_time' = 0
    /\ lp_calls' = 0
    /\ UNCHANGED <<builderVars, midVars, sweepVars, caseInputs, complete_balance_matrix, complete_balance_vector, caller,
                   start_vector, result_dict, obj_value, success, result,
                   processed_dict, generator_returns, minimize_history,
                   objective_calls, hook_calls>>

\* current_result = scipy.optimize.minimize(...), then the update of the best
Minimize ==
    /\ pc = "minimize"
    /\ \E current_result \in MinimizeResults :
          /\ minimize_history' = Append(minimize_history, current_result)
          /\ IF IsBetter(current_result, obj_value)
             THEN /\ result_dict' = ZipDict(FluxNames, current_result.x)
                  /\ obj_value' = current_result.fun
                  /\ success' = current_result.success
             ELSE UNCHANGED <<result_dict, obj_value, success>>
    /\ iteration' = iteration + 1
    /\ pc' = "loop"
    /\ UNCHANGED <<builderVars, midVars, sweepVars, caseInputs, complete_balance_matrix, complete_balance_vector, caller,
                   failed_time, start_vector, result, processed_dict, generator_returns,
                   lp_calls, objective_calls, hook_calls>>

\* return config.Result(result_dict, obj_value, success, optimal_obj_value, label)
ReturnResult ==
    /\ pc = "return"
    /\ result' = Result(result_dict, obj_value, success, optimal_obj_value, label)
    /\ pc' = "hook"
    /\ UNCHANGED <<builderVars, midVars, sweepVars, caseInputs, complete_balance_matrix, complete_balance_vector, caller,
                   failed_time, start_vector, iteration, result_dict, obj_value, success,
                   processed_dict, generator_returns, lp_calls, minimize_history,
                   objective_calls, hook_calls>>

\* parallel_solver_single: hook_result = result_processing_each_iteration_template(
\*     result, contribution_func=hook_in_each_iteration)
ResultProcessing ==
    /\ pc = "hook"
    /\ hook_calls' = Append(hook_calls, HookCall(result))
    /\ \E hook_return \in HookOutcomes :
          IF hook_return.raised
          THEN /\ pc' = "hook_raised"
               /\ UNCHANGED processed_dict
          ELSE /\ pc' = "done"
               /\ processed_dict' = result_processing_each_iteration_template(result, hook_return)
    /\ UNCHANGED <<builderVars, midVars, sweepVars, caseInputs, complete_balance_matrix, complete_balance_vector, caller,
                   failed_time, start_vector, iteration, result_dict, obj_value, success,
                   result, generator_returns, lp_calls, minimize_history, objective_calls>>

CaseNext ==
    \/ Assemble
    \/ LpAttempt
    \/ AfterFirstStart
    \/ LoopHead
    \/ AfterIterationStart
    \/ Minimize
    \/ ReturnResult
    \/ ResultProcessing

CaseSpec == CaseInit /\ [][CaseNext]_vars

\* ------------------------------------------------------------------------
\* start_point_generator called on its own
\* ------------------------------------------------------------------------

\* Equality systems handed to the generator: the balance rows alone, and the
\* balance rows stacked on one fixed flux.
GeneratorSystems ==
    {[matrix |-> CompleteBalance(bl, cfd).matrix, vector |-> CompleteBalance(bl, cfd).vector] :
        bl \in BalanceLists \ {<<>>}, cfd \in ConstantFluxDicts}

GeneratorInit ==
    /\ MidIdle
    /\ BuilderIdle
    /\ SweepIdle
    /\ \E system \in GeneratorSystems :
          /\ complete_balance_matrix = system.matrix
          /\ complete_balance_vector = system.vector
    /\ bounds \in (LowerValues \X LowerValues) \X (UpperValues \X UpperValues)
    /\ balance_list = <<>>
    /\ constant_flux_dict = <<>>
    /\ optimization_repeat_time = 0
    /\ label = "None"
    /\ fitted = FALSE
    /\ optimal_obj_value = 0
    /\ pc = "lp"
    /\ caller = "direct"
    /\ failed_time = 0
    /\ start_vector = None
    /\ iteration = 0
    /\ result_dict = <<>>
    /\ obj_value = 0
    /\ success = FALSE
    /\ result = None
    /\ processed_dict = None
    /\ generator_returns = <<>>
    /\ lp_calls = 0
    /\ minimize_history = <<>>
    /\ objective_calls = <<>>
    /\ hook_calls = <<>>

GeneratorNext == LpAttempt

GeneratorSpec == GeneratorInit /\ [][GeneratorNext]_vars

\* The while loop is sequential code: a pass that can be made is made.
GeneratorFairSpec == GeneratorSpec /\ WF_vars(GeneratorNext)

\* ------------------------------------------------------------------------
\* flux_balance_constraint_constructor called on its own
\* ------------------------------------------------------------------------

\* No case is modelled.
CaseIdle ==
    /\ constant_flux_dict = <<>>
    /\ bounds = <<<<>>, <<>>>>
    /\ optimization_repeat_time = 0
    /\ label = "None"
    /\ fitted = FALSE
    /\ optimal_obj_value = 0
    /\ complete_balance_matrix = <<>>
    /\ complete_balance_vector = <<>>
    /\ pc = "idle"
    /\ caller = "none"
    /\ failed_time = 0
    /\ start_vector = None
    /\ iteration = 0
    /\ result_dict = <<>>
    /\ obj_value = 0
    /\ success = FALSE
    /\ result = None
    /\ processed_dict = None
    /\ generator_returns = <<>>
    /\ lp_calls = 0
    /\ minimize_history = <<>>
    /\ objective_calls = <<>>
    /\ hook_calls = <<>>

\* Longest input or output list of a balance_dict.
MaxNames == 2

\* The flux index of the builder runs, and a name that is not in it.
BuilderFluxNames == <<"f1", "f2", "f3">>

AbsentFluxName == "f9"

NameLists ==
    UNION {[1..k -> Range(BuilderFluxNames) \cup {AbsentFluxName}] : k \in 0..MaxNames}

BalanceDicts == [input : NameLists, output : NameLists]

\* balance_list: none, one, or two balance_dict (the second one of two)
BuilderBalanceLists ==
    {<<>>} \cup {<<first>> : first \in BalanceDicts}
    \cup {<<first, second>> :
             first \in BalanceDicts,
             second \in {[input |-> <<"f1">>, output |-> <<"f2", "f3">>],
                         [input |-> <<"f3", "f3">>, output |-> <<AbsentFluxName>>]}}

BuilderInit ==
    /\ MidIdle
    /\ CaseIdle
    /\ SweepIdle
    /\ balance_list \in BuilderBalanceLists
    /\ builder_pc = "loop"
    /\ flux_balance_multiply_array_list = <<>>
    /\ flux_balance_constant_vector_list = <<>>

\* for balance_dict in balance_list: one pass.  complete_flux_dict[flux_name]
\* raises KeyError for a name that is not in the flux index.
BalanceLoopStep ==
    /\ builder_pc = "loop"
    /\ Len(flux_balance_multiply_array_list) < Len(balance_list)
    /\ LET balance_dict == balance_list[Len(flux_balance_multiply_array_list) + 1]
       IN  IF Range(balance_dict.input \o balance_dict.output) \subseteq Range(BuilderFluxNames)
           THEN /\ flux_balance_multiply_array_list' =
                      Append(flux_balance_multiply_array_list,
                             BalanceRow(balance_dict, BuilderFluxNames))
                /\ flux_balance_constant_vector_list' =
                      Append(flux_balance_constant_vector_list, 0)
                /\ UNCHANGED builder_pc
           ELSE /\ builder_pc' = "raised"
                /\ UNCHANGED <<flux_balance_multiply_array_list,
                               flux_balance_constant_vector_list>>
    /\ UNCHANGED <<caseVars, midVars, sweepVars>>

\* return flux_balance_matrix, flux_balance_constant_vector
BalanceReturn ==
    /\ builder_pc = "loop"
    /\ Len(flux_balance_multiply_array_list) = Len(balance_list)
    /\ builder_pc' = "built"
    /\ UNCHANGED <<flux_balance_multiply_array_list, flux_balance_constant_vector_list>>
    /\ UNCHANGED <<caseVars, midVars, sweepVars>>

BuilderNext ==
    \/ BalanceLoopStep
    \/ BalanceReturn

BuilderSpec == BuilderInit /\ [][BuilderNext]_vars

\* ------------------------------------------------------------------------
\* mid_constraint_constructor called on its own
\* ------------------------------------------------------------------------

\* constant_set.target_label
target_label == "target"

\* constant_set.eps_for_log; the entries of MID vectors are counted in units
\* of it.
eps_for_log == 1

\* Longest target MID vector.
MaxDim == 2

\* MID vectors of the given lengths.
MidVectors(lengths) == UNION {[1..n -> {2, 3}] : n \in lengths}

\* The flux items of a mid_constraint_dict: one or two fluxes, each with a MID
\* vector that is as long as a target vector, shorter, or longer; a flux name
\* may be absent from the flux index.
MidFluxItems ==
    {<< <<f, v>> >> : f \in {"f1", "f2", AbsentFluxName}, v \in MidVectors(1..(MaxDim + 1))}
    \cup {<< <<"f1", v>>, <<"f2", w>> >> :
             v \in MidVectors(1..(MaxDim + 1)), w \in MidVectors({MaxDim})}

\* mid_constraint_dict: the target vector under target_label, then the fluxes
MidConstraintDicts ==
    {<< <<target_label, t>> >> \o items : t \in MidVectors(1..MaxDim), items \in MidFluxItems}

\* mid_constraint_list: none, one, or two mid_constraint_dict (the first one
\* of two well formed)
MidConstraintLists ==
    {<<>>} \cup {<<d>> : d \in MidConstraintDicts}
    \cup {<< << <<target_label, <<2, 3>> >>, <<"f1", <<3, 2>> >> >>, d >> :
             d \in MidConstraintDicts}

\* The for loop over mid_constraint_dict.items() from item k on, substrate and
\* flux_sum being the two new row lists (vector_dim rows each).
\* complete_flux_dict[flux_name] raises KeyError for an unknown name, and
\* new_substrate_mid_matrix_list[index] raises IndexError once index reaches
\* vector_dim; a vector shorter than vector_dim leaves the later rows as they
\* are.
RECURSIVE MidFill(_, _, _, _, _)
MidFill(items, k, keys, substrate, flux_sum) ==
    IF k > Len(items)
    THEN [raised |-> FALSE, substrate |-> substrate, flux_sum |-> flux_sum]
    ELSE IF items[k][1] = target_label
    THEN MidFill(items, k + 1, keys, substrate, flux_sum)
    ELSE IF items[k][1] \notin Range(keys) \/ Len(items[k][2]) > Len(substrate)
    THEN [raised |-> TRUE, substrate |-> substrate, flux_sum |-> flux_sum]
    ELSE LET flux_index == FluxIndex(keys, items[k][1])
             vector     == items[k][2]
         IN  MidFill(items, k + 1, keys,
                     [index \in 1..Len(substrate) |->
                         IF index <= Len(vector)
                         THEN [substrate[index] EXCEPT ![flux_index] = vector[index]]
                         ELSE substrate[index]],
                     [index \in 1..Len(flux_sum) |->
                         IF index <= Len(vector)
                         THEN [flux_sum[index] EXCEPT ![flux_index] = 1]
                         ELSE flux_sum[index]])

\* The value of a dict under a key
ItemOf(items, key) == items[CHOOSE k \in 1..Len(items) : items[k][1] = key][2]

\* np.hstack
RECURSIVE Hstack(_)
Hstack(vector_list) ==
    IF vector_list = <<>> THEN <<>> ELSE Head(vector_list) \o Hstack(Tail(vector_list))

MidInit ==
    /\ CaseIdle
    /\ BuilderIdle
    /\ SweepIdle
    /\ balance_list = <<>>
    /\ mid_constraint_list \in MidConstraintLists
    /\ mid_pc = "loop"
    /\ substrate_mid_matrix_list = <<>>
    /\ flux_sum_matrix_list = <<>>
    /\ target_mid_vector_list = <<>>
    /\ mid_result = None

\* for mid_constraint_dict in mid_constraint_list: one pass
MidLoopStep ==
    /\ mid_pc = "loop"
    /\ Len(target_mid_vector_list) < Len(mid_constraint_list)
    /\ LET mid_constraint_dict == mid_constraint_list[Len(target_mid_vector_list) + 1]
           target_mid_vector   == ItemOf(mid_constraint_dict, target_label)
           vector_dim          == Len(target_mid_vector)
           zero_rows           == [index \in 1..vector_dim |-> Zeros(Len(FluxNames))]
           filled              == MidFill(mid_constraint_dict, 1, FluxNames,
                                          zero_rows, zero_rows)
       IN  /\ target_mid_vector_list' = Append(target_mid_vector_list, target_mid_vector)
           /\ IF filled.raised
              THEN /\ mid_pc' = "raised"
                   /\ UNCHANGED <<substrate_mid_matrix_list, flux_sum_matrix_list>>
              ELSE /\ substrate_mid_matrix_list' = substrate_mid_matrix_list \o filled.substrate
                   /\ flux_sum_matrix_list' = flux_sum_matrix_list \o filled.flux_sum
                   /\ UNCHANGED mid_pc
    /\ UNCHANGED <<caseVars, builderVars, sweepVars, mid_constraint_list, mid_result>>

\* After the loop: the two matrices, the target vector plus eps_for_log, and
\* optimal_obj_value = -sum(t * log(t)), kept as the vector t it is taken of.
\* np.hstack of an empty list raises ValueError.
MidReturn ==
    /\ mid_pc = "loop"
    /\ Len(target_mid_vector_list) = Len(mid_constraint_list)
    /\ IF target_mid_vector_list = <<>>
       THEN /\ mid_pc' = "raised"
            /\ UNCHANGED mid_result
       ELSE LET stacked == Hstack(target_mid_vector_list)
                target_mid_vector == [i \in 1..Len(stacked) |-> stacked[i] + eps_for_log]
            IN  /\ mid_pc' = "built"
                /\ mid_result' = [substrate_mid_matrix |-> substrate_mid_matrix_list,
                                  flux_sum_matrix |-> flux_sum_matrix_list,
                                  target_mid_vector |-> target_mid_vector,
                                  optimal_obj_value |-> [entropy_of |-> target_mid_vector]]
    /\ UNCHANGED <<caseVars, builderVars, sweepVars, mid_constraint_list,
                   substrate_mid_matrix_list, flux_sum_matrix_list, target_mid_vector_list>>

MidNext ==
    \/ MidLoopStep
    \/ MidReturn

MidSpec == MidInit /\ [][MidNext]_vars

\* ------------------------------------------------------------------------
\* parallel_solver: the sweep over the worker pool
\* ------------------------------------------------------------------------

\* Longest per-case parameter sequence.
MaxCases == 3

\* One modelled case stands for ChunkScale cases of a chunk: the chunk sizes
\* 40 and 80 become 2 and 4, so that a sweep of MaxCases cases has several
\* chunks.
ChunkScale == 20

\* os.cpu_count() of the machines modelled.
CpuCounts == {1, 3, 12}

\* parallel_num as passed by the caller: <<n>> for the number n, None to ask
\* for the default.
ParallelNumArgs == {None, <<1>>, <<2>>, <<8>>}

\* A variant of worker_count: every core is used below 10 cores too.
WorkerCountAllCores(arg, cores) ==
    IF arg = None THEN SetMin({cores, 16}) ELSE arg[1]

\* if parallel_num is None: cpu_count - 1 below 10 cores, else min(cpu_count, 16)
worker_count(arg, cores) ==
    IF arg = None
    THEN IF cores < 10 THEN cores - 1 ELSE SetMin({cores, 16})
    ELSE arg[1]

\* chunk_size = 40 if parallel_num < 8 else 80
chunk_size(workers) == IF workers < 8 THEN 40 ELSE 80

\* Cases of one chunk of the modelled pool.
ChunkLength(workers) == chunk_size(workers) \div ChunkScale

\* How one case behaves in its worker: the solver converges, the solver
\* returns the failure sentinel, the solver raises, or the per-case hook raises.
Behaviours == {"solved", "failed", "solver_raises", "hook_raises"}

\* var_parameter_list of k cases; case i carries label i.
ParameterLists ==
    UNION {{[i \in 1..k |-> [label |-> i, behaviour |-> b[i]]] : b \in [1..k -> Behaviours]} :
           k \in 0..MaxCases}

\* one_case_solver_func(**const_parameter_dict, **var_parameter_dict) when it returns
SolveCase(var_parameter_dict) ==
    IF var_parameter_dict.behaviour = "failed"
    THEN Result(FailureSentinel.result_dict, FailureSentinel.obj_value,
                FailureSentinel.success, 1, var_parameter_dict.label)
    ELSE Result(ZipDict(FluxNames, <<var_parameter_dict.label, var_parameter_dict.label>>),
                2, TRUE, 1, var_parameter_dict.label)

\* parallel_solver_single: (result, hook_result) of a case that does not raise.
\* The contribution hook answers from the mapping it is given.
parallel_solver_single(var_parameter_dict) ==
    LET solved == SolveCase(var_parameter_dict)
        call   == HookCall(solved)
    IN  <<solved,
          result_processing_each_iteration_template(
              solved, [valid |-> ~call.empty, contribution_dict |-> call.flux])>>

\* The chunks pool.imap cuts the parameter sequence into, none started.
ChunksOf(parameters, length) ==
    [c \in 1..((Len(parameters) + length - 1) \div length) |->
        [status |-> "queued", results |-> <<>>]]

\* Index in var_parameter_list of the next case of chunk c.
NextCaseOf(c) == (c - 1) * ChunkLength(parallel_num) + Len(chunks[c].results) + 1

\* Index of the last case of chunk c.
LastCaseOf(c) == SetMin({c * ChunkLength(parallel_num), Len(var_parameter_list)})

Running == {c \in 1..Len(chunks) : chunks[c].status = "running"}

\* imap_unordered: any finished chunk is handed to the caller.
NextCollectableAsCompleted(chs) ==
    {c \in 1..Len(chs) : chs[c].status \in {"done", "failed"}}

\* pool.imap yields the chunks in the order of the input sequence: chunk c
\* once it has finished and every chunk before it has been yielded.
NextCollectable(chs) ==
    {c \in 1..Len(chs) :
        /\ chs[c].status \in {"done", "failed"}
        /\ \A d \in 1..(c - 1) : chs[d].status = "collected"}

\* A failed chunk is skipped and the collection goes on.
ChunkYieldSkippingFailures(chunk) == [raised |-> FALSE, items |-> chunk.results]

\* What the ordered result iterator yields for a finished chunk: its items,
\* or the exception of the case that raised in it.
ChunkYield(chunk) ==
    IF chunk.status = "failed"
    THEN [raised |-> TRUE, items |-> <<>>]
    ELSE [raised |-> FALSE, items |-> chunk.results]

\* zip(*raw_result_list) unpacked into two names: ValueError without items.
Unzip(raw) ==
    IF Len(raw) = 0
    THEN [raised |-> TRUE, result_list |-> <<>>, hook_result_list |-> <<>>]
    ELSE [raised |-> FALSE,
          result_list |-> [i \in 1..Len(raw) |-> raw[i][1]],
          hook_result_list |-> [i \in 1..Len(raw) |-> raw[i][2]]]

\* const_parameter_dict['iter_length'] as the parameter constructor supplies
\* it: the number of cases, or a count that is off by one.  Next to a list it
\* is not read.
IterLengths(parameters, materialized) ==
    IF materialized THEN {Len(parameters) + 1}
    ELSE {Len(parameters), Len(parameters) + 1}

\* total_length: len(var_parameter_list) of a list, else the supplied count
TotalLength(parameters, materialized, supplied) ==
    IF materialized THEN Len(parameters) ELSE supplied

\* Number of cases pool.imap has taken from the sequence it iterates over: the
\* cases of the chunks handed to workers.
Consumed(chs, parameters, length) ==
    SetMin({Len(parameters),
            length * Cardinality({c \in 1..Len(chs) : chs[c].status # "queued"})})

\* A variant of Preserved: the iterator given to pool.imap is also the one
\* given to the global hook.
PreservedWithoutTee(parameters, materialized, consumed) ==
    [kind |-> IF materialized THEN "list" ELSE "iterator",
     items |-> IF materialized THEN parameters
               ELSE SubSeq(parameters, consumed + 1, Len(parameters))]

\* var_parameter_list2 and the items it yields when the global hook iterates
\* over it: the list itself, or the second iterator of it.tee, which yields
\* every item whatever pool.imap has taken from the first.
Preserved(parameters, materialized, consumed) ==
    [kind |-> IF materialized THEN "list" ELSE "iterator", items |-> parameters]

\* pool.terminate(): the chunks not finished are given up.
Terminated(chs) ==
    [c \in 1..Len(chs) |->
        IF chs[c].status \in {"queued", "running"}
        THEN [chs[c] EXCEPT !.status = "terminated"]
        ELSE chs[c]]

SweepInit ==
    /\ MidIdle
    /\ CaseIdle
    /\ BuilderIdle
    /\ balance_list = <<>>
    /\ parallel_num_arg \in ParallelNumArgs
    /\ cpu_count \in (IF parallel_num_arg = None THEN CpuCounts ELSE {SetMin(CpuCounts)})
    /\ var_parameter_list \in ParameterLists
    /\ is_list \in BOOLEAN
    /\ iter_length \in IterLengths(var_parameter_list, is_list)
    /\ main_pc = "setup"
    /\ parallel_num = 0
    /\ total_length = 0
    /\ chunks = <<>>
    /\ raw_result_list = <<>>
    /\ output_direct_exists \in BOOLEAN
    /\ hook_after_all_iterations_calls = <<>>
    /\ solve_count = [i \in 1..Len(var_parameter_list) |-> 0]
    /\ raised_cases = {}
    /\ completion_order = <<>>

\* Worker count, chunk size, parameters, total_length, mp.Pool and pool.imap.
\* mp.Pool(processes=0) raises ValueError.
Setup ==
    /\ main_pc = "setup"
    /\ parallel_num' = worker_count(parallel_num_arg, cpu_count)
    /\ total_length' = TotalLength(var_parameter_list, is_list, iter_length)
    /\ IF parallel_num' < 1
       THEN /\ main_pc' = "raised"
            /\ UNCHANGED chunks
       ELSE /\ main_pc' = "collect"
            /\ chunks' = ChunksOf(var_parameter_list, ChunkLength(parallel_num'))
    /\ UNCHANGED <<caseVars, builderVars, midVars, sweepInputs, raw_result_list,
                   output_direct_exists, hook_after_all_iterations_calls,
                   solve_count, raised_cases, completion_order>>

\* An idle worker takes the next chunk of the task queue.
StartChunk(c) ==
    /\ main_pc = "collect"
    /\ chunks[c].status = "queued"
    /\ \A d \in 1..(c - 1) : chunks[d].status # "queued"
    /\ Cardinality(Running) < parallel_num
    /\ chunks' = [chunks EXCEPT ![c].status = "running"]
    /\ UNCHANGED <<caseVars, builderVars, midVars, sweepInputs, main_pc, parallel_num, total_length,
                   raw_result_list, output_direct_exists,
                   hook_after_all_iterations_calls,
                   solve_count, raised_cases, completion_order>>

\* The worker of chunk c runs parallel_solver_single on the next case of the
\* chunk.  An exception ends the chunk: its later cases are not run.
WorkerCase(c) ==
    /\ main_pc = "collect"
    /\ chunks[c].status = "running"
    /\ LET i == NextCaseOf(c)
           var_parameter_dict == var_parameter_list[i]
       IN  /\ solve_count' = [solve_count EXCEPT ![i] = @ + 1]
           /\ IF var_parameter_dict.behaviour \in {"solver_raises", "hook_raises"}
              THEN /\ chunks' = [chunks EXCEPT ![c].status = "failed"]
                   /\ raised_cases' = raised_cases \cup {i}
                   /\ completion_order' = Append(completion_order, c)
              ELSE /\ chunks' = [chunks EXCEPT
                          ![c].results = Append(@, parallel_solver_single(var_parameter_dict)),
                          ![c].status = IF i = LastCaseOf(c) THEN "done" ELSE "running"]
                   /\ completion_order' = IF i = LastCaseOf(c)
                                          THEN Append(completion_order, c)
                                          ELSE completion_order
                   /\ UNCHANGED raised_cases
    /\ UNCHANGED <<caseVars, builderVars, midVars, sweepInputs, main_pc, parallel_num, total_length,
                   raw_result_list, output_direct_exists,
                   hook_after_all_iterations_calls>>

\* list(tqdm(raw_result_iter)): the caller takes the next chunk of the ordered
\* stream.  An exception leaves the with block, which terminates the pool.
Collect ==
    /\ main_pc = "collect"
    /\ \E c \in NextCollectable(chunks) :
          LET yield == ChunkYield(chunks[c])
          IN  IF yield.raised
              THEN /\ main_pc' = "raised"
                   /\ chunks' = Terminated(chunks)
                   /\ UNCHANGED raw_result_list
              ELSE /\ raw_result_list' = raw_result_list \o yield.items
                   /\ chunks' = [chunks EXCEPT ![c].status = "collected"]
                   /\ UNCHANGED main_pc
    /\ UNCHANGED <<caseVars, builderVars, midVars, sweepInputs, parallel_num, total_length,
                   output_direct_exists, hook_after_all_iterations_calls,
                   solve_count, raised_cases, completion_order>>

\* The stream is exhausted: zip, the output directory, the global hook.
Aggregate ==
    /\ main_pc = "collect"
    /\ \A c \in 1..Len(chunks) : chunks[c].status = "collected"
    /\ LET unzipped == Unzip(raw_result_list)
       IN  IF unzipped.raised
           THEN /\ main_pc' = "raised"
                /\ UNCHANGED <<output_direct_exists, hook_after_all_iterations_calls>>
           ELSE /\ main_pc' = "done"
                /\ output_direct_exists' = TRUE
                /\ hook_after_all_iterations_calls' =
                      Append(hook_after_all_iterations_calls,
                             [result_list |-> unzipped.result_list,
                              hook_result_list |-> unzipped.hook_result_list,
                              var_parameter_list2 |->
                                  Preserved(var_parameter_list, is_list,
                                            Consumed(chunks, var_parameter_list,
                                                     ChunkLength(parallel_num)))])
    /\ UNCHANGED <<caseVars, builderVars, midVars, sweepInputs, parallel_num, total_length, chunks,
                   raw_result_list, solve_count, raised_cases, completion_order>>

Next ==
    \/ Setup
    \/ \E c \in 1..Len(chunks) : StartChunk(c)
    \/ \E c \in 1..Len(chunks) : WorkerCase(c)
    \/ Collect
    \/ Aggregate

Spec == SweepInit /\ [][Next]_vars

\* ------------------------------------------------------------------------
\* parallel_solver on machines of every size (short sweeps)
\* ------------------------------------------------------------------------

\* Largest os.cpu_count().
MaxCores == 20

\* Sweeps of at most one case, on 1..MaxCores cores when the worker count is
\* left to parallel_solver.
MachineInit ==
    /\ MidIdle
    /\ CaseIdle
    /\ BuilderIdle
    /\ balance_list = <<>>
    /\ parallel_num_arg \in ParallelNumArgs
    /\ cpu_count \in (IF parallel_num_arg = None THEN 1..MaxCores ELSE {1})
    /\ var_parameter_list \in {parameters \in ParameterLists : Len(parameters) <= 1}
    /\ is_list \in BOOLEAN
    /\ iter_length \in IterLengths(var_parameter_list, is_list)
    /\ main_pc = "setup"
    /\ parallel_num = 0
    /\ total_length = 0
    /\ chunks = <<>>
    /\ raw_result_list = <<>>
    /\ output_direct_exists \in BOOLEAN
    /\ hook_after_all_iterations_calls = <<>>
    /\ solve_count = [i \in 1..Len(var_parameter_list) |-> 0]
    /\ raised_cases = {}
    /\ completion_order = <<>>

MachineSpec == MachineInit /\ [][Next]_vars

\* ------------------------------------------------------------------------
\* Properties of the sweep (Spec)
\* ------------------------------------------------------------------------

Cases == 1..Len(var_parameter_list)

Calls == hook_after_all_iterations_calls

\* C1: whatever the order in which the workers finish, entry i of the result
\* list and of the per-case hook-result list handed to the global hook (and
\* of the list collected so far) is what solving parameter set i gives, and
\* the result labelled i is at position i.
C1_ResultsInInputOrder ==
    /\ \A i \in 1..Len(raw_result_list) :
          raw_result_list[i] = parallel_solver_single(var_parameter_list[i])
    /\ \A n \in 1..Len(Calls) :
          /\ \A i \in 1..Len(Calls[n].result_list) :
                /\ Calls[n].result_list[i] = SolveCase(var_parameter_list[i])
                /\ Calls[n].result_list[i].label = i
          /\ \A i \in 1..Len(Calls[n].hook_result_list) :
                Calls[n].hook_result_list[i] = parallel_solver_single(var_parameter_list[i])[2]

\* The global hook has been called for a sweep of three or more cases whose
\* first chunk was not the first to finish.
C1_Witness ==
    /\ Len(Calls) = 1
    /\ Len(Calls[1].result_list) >= 3
    /\ Len(completion_order) >= 2
    /\ completion_order[1] # 1

NoCaseRaises ==
    \A i \in Cases : var_parameter_list[i].behaviour \in {"solved", "failed"}

Finished == main_pc \in {"done", "raised"}

\* C2: for a parameter sequence of length k >= 0 in which no case raises
\* (and a pool of at least one worker), the global hook is invoked exactly
\* once, after every case has been solved exactly once, with a result list and
\* a hook-result list of k entries each.
C2_GlobalHookExactlyOnce ==
    /\ Len(Calls) <= 1
    /\ \A n \in 1..Len(Calls) :
          /\ \A i \in Cases : solve_count[i] = 1
          /\ Len(Calls[n].result_list) = Len(var_parameter_list)
          /\ Len(Calls[n].hook_result_list) = Len(var_parameter_list)
    /\ (NoCaseRaises /\ parallel_num >= 1 /\ Finished) => Len(Calls) = 1

\* C4: once the solver or the hook of a case has raised in a worker, the
\* global hook is never invoked and the sweep cannot complete; when nothing
\* more can happen the exception has left parallel_solver; and no case is
\* ever run a second time.
C4_ExceptionAbortsSweep ==
    /\ raised_cases # {} => (Calls = <<>> /\ main_pc # "done")
    /\ (raised_cases # {} /\ ~ENABLED Next) => main_pc = "raised"
    /\ \A i \in Cases : solve_count[i] <= 1

\* The per-case hook of a case raised after an earlier chunk had been collected
\* without error, and the exception has left parallel_solver.
C4_Witness ==
    /\ main_pc = "raised"
    /\ raw_result_list # <<>>
    /\ \E i \in raised_cases : var_parameter_list[i].behaviour = "hook_raises"
    /\ Calls = <<>>

\* Parameter sets handed to the solver so far, in the order of their dispatch
\* (the cases of a chunk are run in order, and chunks are started in order).
Dispatched == {i \in Cases : solve_count[i] > 0}

\* C11: a lazy parameter sequence is duplicated: the global hook receives an
\* iterator that yields every dispatched parameter set, in the order of
\* dispatch, and the progress total is const_parameter_dict['iter_length'];
\* a list is handed to the hook as it is and the total is its length.
C11_PreservedParameterSequence ==
    /\ main_pc \notin {"idle", "setup"} =>
          total_length = (IF is_list THEN Len(var_parameter_list) ELSE iter_length)
    /\ \A n \in 1..Len(Calls) :
          /\ Calls[n].var_parameter_list2.kind = (IF is_list THEN "list" ELSE "iterator")
          /\ Len(Calls[n].var_parameter_list2.items) = Cardinality(Dispatched)
          /\ \A i \in Dispatched :
                /\ Calls[n].var_parameter_list2.items[i] = var_parameter_list[i]
                /\ Calls[n].result_list[i].label = Calls[n].var_parameter_list2.items[i].label

\* The global hook was called after a sweep over a lazy sequence of two or
\* more cases whose supplied count differs from the number of cases.
C11_Witness ==
    /\ ~is_list
    /\ Len(Calls) = 1
    /\ Len(Calls[1].var_parameter_list2.items) >= 2
    /\ total_length = iter_length
    /\ iter_length # Len(var_parameter_list)

\* ------------------------------------------------------------------------
\* Properties of the worker count and the chunk size (MachineSpec)
\* ------------------------------------------------------------------------

\* parallel_solver is past its choice of the worker count.
WorkersChosen == main_pc \notin {"idle", "setup"}

\* C12: with parallel_num None the worker count is cores - 1 below 10 cores
\* and the smaller of cores and 16 from 10 cores on; a given parallel_num is
\* used unchanged.
C12_WorkerCount ==
    WorkersChosen =>
        /\ (parallel_num_arg = None /\ cpu_count < 10) => parallel_num + 1 = cpu_count
        /\ (parallel_num_arg = None /\ cpu_count >= 10) =>
              /\ parallel_num <= cpu_count
              /\ parallel_num <= 16
              /\ parallel_num \in {cpu_count, 16}
        /\ parallel_num_arg # None => <<parallel_num>> = parallel_num_arg

\* A sweep has completed on a machine of more than 16 cores with 16 workers,
\* the worker count having been left to parallel_solver.
C12_Witness ==
    /\ main_pc = "done"
    /\ parallel_num_arg = None
    /\ cpu_count > 16
    /\ parallel_num = 16

\* C15: the chunk size is 40 or 80 and does not grow with the worker count:
\* no smaller worker count has a smaller chunk than the one in use.
C15_SmallerPoolsGetLargerChunks ==
    (WorkersChosen /\ parallel_num >= 1) =>
        /\ chunk_size(parallel_num) \in {40, 80}
        /\ \A p \in 1..(parallel_num - 1) : chunk_size(p) >= chunk_size(parallel_num)

\* C19: a worker count chosen by parallel_solver itself is at least 1 on
\* every machine, so that the pool can be created.
C19_AutomaticWorkerCountAtLeastOne ==
    (WorkersChosen /\ parallel_num_arg = None) => parallel_num >= 1

\* ------------------------------------------------------------------------
\* Properties of one case (CaseSpec) and of the generator (GeneratorSpec)
\* ------------------------------------------------------------------------

\* one_case_solver_slsqp has returned its Result.
Returned == pc \in {"hook", "done", "hook_raised"}

\* The keys of a dict, in insertion order
DictKeys(d) == [k \in 1..Len(d) |-> d[k][1]]

\* d[key]
DictGet(d, key) == d[CHOOSE k \in 1..Len(d) : d[k][1] = key][2]

\* Every start_point_generator call made so far returned None.
EveryGenerationFailed ==
    /\ generator_returns # <<>>
    /\ \A k \in 1..Len(generator_returns) : generator_returns[k] = None

\* C3: a case whose feasible-point generation fails on every attempt makes
\* one_case_solver_slsqp return, without raising, the Result with
\* success = false, obj_value = 999999 and result_dict = {}, whether fitted or
\* not; the per-case hook then runs on it as on any other Result.
C3_GenerationFailureGivesSentinel ==
    EveryGenerationFailed =>
        /\ pc # "raised"
        /\ pc = "return" =>
              /\ result_dict = <<>>
              /\ obj_value = 999999
              /\ success = FALSE
        /\ Returned =>
              /\ result.success = FALSE
              /\ result.obj_value = 999999
              /\ result.result_dict = <<>>

C3_Witness ==
    /\ pc = "done"
    /\ EveryGenerationFailed
    /\ fitted
    /\ optimization_repeat_time > 0
    /\ bounds[1][1] > bounds[2][1]
    /\ result.success = FALSE

\* C5: result_processing_each_iteration_template calls the hook exactly once
\* per case, with the solved flux mapping in normal mode when result.success
\* and in empty mode otherwise, and the record it returns has exactly the keys
\* obj_diff, valid and contribution_dict, obj_diff being
\* obj_value - minimal_obj_value on success and NaN on failure.
C5_HookAdapter ==
    /\ Len(hook_calls) = (IF pc \in {"done", "hook_raised"} THEN 1 ELSE 0)
    /\ pc \in {"done", "hook_raised"} =>
          /\ hook_calls[1].flux = result.result_dict
          /\ hook_calls[1].empty = ~result.success
    /\ pc = "done" =>
          /\ Range(DictKeys(processed_dict)) = {"obj_diff", "valid", "contribution_dict"}
          /\ Len(processed_dict) = 3
          /\ result.success =>
                DictGet(processed_dict, "obj_diff")
                    = FloatSub(result.obj_value, result.minimal_obj_value)
          /\ ~result.success => DictGet(processed_dict, "obj_diff") = NaN

C5_Witness ==
    /\ pc = "done"
    /\ result.success
    /\ result.obj_value = 0
    /\ hook_calls = <<[flux |-> result.result_dict, empty |-> FALSE]>>
    /\ DictGet(processed_dict, "obj_diff") = 0 - result.minimal_obj_value

\* The fitted loop has been entered or left (the first start point exists, or
\* the case has failed before the loop).
FittedBestRecorded ==
    /\ fitted
    /\ pc \notin {"assemble", "raised"}
    /\ ~(caller = "first" /\ pc \in {"lp", "gen_done"})

\* Converged runs of the optimizer so far
Converged == {i \in 1..Len(minimize_history) : minimize_history[i].success}

\* ... whose objective is below the initial best 999999 (NaN is not)
Recordable == {i \in Converged : FloatLt(minimize_history[i].fun, SentinelObj)}

\* The earliest run of least objective among the runs S
EarliestLeast(S) ==
    CHOOSE i \in S : \A j \in S :
        /\ ~FloatLt(minimize_history[j].fun, minimize_history[i].fun)
        /\ j < i => FloatLt(minimize_history[i].fun, minimize_history[j].fun)

C6_BestIsEarliestLeastRecordable ==
    FittedBestRecorded =>
        IF Recordable = {}
        THEN result_dict = <<>> /\ obj_value = 999999 /\ success = FALSE
        ELSE LET best == minimize_history[EarliestLeast(Recordable)]
             IN  /\ obj_value = best.fun
                 /\ success = TRUE
                 /\ result_dict = [k \in 1..Len(FluxNames) |-> <<FluxNames[k], best.x[k]>>]

C6_ChangesOnlyOnBetterConvergedRun ==
    (fitted /\ pc \in {"loop", "lp", "gen_done", "minimize"} /\ ~(caller = "first" /\ pc # "loop")) =>
        /\ ~FloatLt(obj_value, obj_value')
        /\ success => success'
        /\ <<result_dict, obj_value, success>>' # <<result_dict, obj_value, success>> =>
              /\ pc = "minimize"
              /\ LET current_result == minimize_history'[Len(minimize_history')]
                 IN  /\ current_result.success
                     /\ FloatLt(current_result.fun, obj_value)
                     /\ obj_value' = current_result.fun
                     /\ result_dict' = [k \in 1..Len(FluxNames) |->
                                           <<FluxNames[k], current_result.x[k]>>]

\* C6 (as amended): in fitted mode the recorded best (result_dict, obj_value,
\* success) changes only when an optimizer run reports convergence and its
\* objective is strictly lower than the recorded best; the recorded objective
\* never increases and success never reverts; and at every point the recorded
\* obj_value and result_dict both come from one converged run, the earliest of
\* least objective among the converged runs whose objective is strictly below
\* the initial best 999999; when there is no such run the record is the
\* failure sentinel.
C6_RecordedBest ==
    [](C6_BestIsEarliestLeastRecordable) /\ [][C6_ChangesOnlyOnBetterConvergedRun]_vars

C6_Witness ==
    /\ pc = "return"
    /\ fitted
    /\ Len(minimize_history) = 2
    /\ minimize_history[1].success /\ minimize_history[1].fun = 1
    /\ minimize_history[2].success /\ minimize_history[2].fun = 0
    /\ minimize_history[2].x # minimize_history[1].x
    /\ obj_value = 0
    /\ success

\* Converged runs whose objective is a number
ConvergedWithNumber == {i \in Converged : minimize_history[i].fun # NaN}

\* C6 (as claimed): the returned obj_value and result_dict come from the
\* converged run of least objective among all converged runs (the earliest on
\* ties).
C6_BestAmongAllConverged ==
    (fitted /\ pc = "return" /\ ConvergedWithNumber # {}) =>
        LET best == minimize_history[EarliestLeast(ConvergedWithNumber)]
        IN  /\ obj_value = best.fun
            /\ result_dict = [k \in 1..Len(FluxNames) |-> <<FluxNames[k], best.x[k]>>]

\* The (result_dict, obj_value, success) the solver is about to return, or has
\* returned
Outcome ==
    IF pc = "return" THEN [result_dict |-> result_dict, obj_value |-> obj_value, success |-> success]
    ELSE [result_dict |-> result.result_dict, obj_value |-> result.obj_value,
          success |-> result.success]

\* C7: with fitted = False one_case_solver_slsqp calls the feasible-point
\* generator exactly once and never runs the optimizer; when the point exists
\* the Result has success = true, result_dict pairing the flux names in
\* FluxIndex order with the point's components, and obj_value the objective
\* evaluated (once) at that point; otherwise it is the failure sentinel.
C7_UnfittedReportsStartPoint ==
    ~fitted =>
        /\ minimize_history = <<>>
        /\ pc \notin {"loop", "minimize"}
        /\ Len(generator_returns) <= 1
        /\ (pc = "return" \/ Returned) =>
              /\ Len(generator_returns) = 1
              /\ IF generator_returns[1] # None
                 THEN /\ Outcome.success = TRUE
                      /\ Outcome.result_dict =
                            [k \in 1..Len(FluxNames) |-> <<FluxNames[k], generator_returns[1][k]>>]
                      /\ Len(objective_calls) = 1
                      /\ objective_calls[1].at = generator_returns[1]
                      /\ Outcome.obj_value = objective_calls[1].value
                 ELSE /\ Outcome.success = FALSE
                      /\ Outcome.result_dict = <<>>
                      /\ Outcome.obj_value = 999999
                      /\ objective_calls = <<>>

C7_Witness ==
    /\ pc = "done"
    /\ ~fitted
    /\ optimization_repeat_time > 0
    /\ generator_returns = <<start_vector>>
    /\ start_vector = <<3, 3>>
    /\ result.success
    /\ result.result_dict = << <<"f1", 3>>, <<"f2", 3>> >>

\* C8 (as claimed): every point start_point_generator returns satisfies
\* A_eq x = b_eq and lies within the original box bounds, lower <= x <= upper
\* componentwise.
C8_StartPointWithinOriginalBounds ==
    (pc = "gen_done" /\ start_vector # None) =>
        /\ \A r \in 1..Len(complete_balance_matrix) :
              Dot(complete_balance_matrix[r], start_vector) = -(complete_balance_vector[r])
        /\ \A i \in 1..Len(FluxNames) :
              bounds[1][i] <= start_vector[i] /\ start_vector[i] <= bounds[2][i]

\* C10: every Result one_case_solver_slsqp returns has result_dict empty and
\* obj_value = 999999 when success is false, one result_dict entry per flux
\* name of the FluxIndex when success is true, and always the caller's
\* optimal_obj_value as minimal_obj_value and the caller's label.
C10_ResultShape ==
    Returned =>
        /\ result.success = FALSE => result.result_dict = <<>> /\ result.obj_value = 999999
        /\ result.success = TRUE => DictKeys(result.result_dict) = FluxNames
        /\ result.minimal_obj_value = optimal_obj_value
        /\ result.label = label

C10_Witness ==
    /\ pc = "done"
    /\ fitted
    /\ label = "sweep"
    /\ result.success
    /\ result.label = "sweep"
    /\ Len(minimize_history) = 2
    /\ ~minimize_history[1].success

\* C13 (as claimed): in fitted mode with repeat count r the solver has
\* performed r iterations when it returns, each with its own call of the
\* start point generator, and it fails only if no iteration gave a result
\* that could be recorded.
C13_EveryIterationIsRun ==
    (fitted /\ Returned) =>
        /\ iteration = optimization_repeat_time
        /\ Len(generator_returns) = optimization_repeat_time + 1
        /\ ~result.success => Recordable = {}

\* The successful outcomes of one LP attempt of the generator's system.
LpSolutions ==
    {res.x : res \in {o \in LpOutcomes(complete_balance_matrix,
                                        Negated(complete_balance_vector),
                                        bounds[1], bounds[2]) : o.success}}

C14_AttemptsBounded ==
    /\ lp_calls <= maximal_failed_time
    /\ failed_time <= maximal_failed_time
    /\ pc = "lp" => (failed_time = lp_calls /\ failed_time < maximal_failed_time)
    /\ pc = "gen_done" =>
          /\ start_vector = None <=>
                (failed_time = maximal_failed_time /\ lp_calls = maximal_failed_time)
          /\ start_vector # None => lp_calls = failed_time + 1

C14_AttemptCounted ==
    /\ lp_calls' = lp_calls + 1
    /\ \/ /\ failed_time' = failed_time + 1
          /\ start_vector' = None
       \/ /\ failed_time' = failed_time
          /\ pc' = "gen_done"
          /\ start_vector' \in LpSolutions

\* C14: start_point_generator terminates after at most maximal_failed_time
\* LP attempts: every failed attempt (ValueError or unsuccessful) adds
\* exactly one to the failure counter and is followed by another attempt, the
\* first successful attempt ends the call with its solution, and None is
\* returned exactly when maximal_failed_time attempts have failed.
C14_GeneratorTerminates ==
    /\ [](C14_AttemptsBounded)
    /\ [][C14_AttemptCounted]_vars
    /\ <>(pc = "gen_done")

\* The generator has returned a point from its fourth attempt, after three
\* failed ones.
C14_Witness ==
    /\ pc = "gen_done"
    /\ caller = "direct"
    /\ start_vector # None
    /\ failed_time = 3
    /\ lp_calls = 4

\* Points at which the equality residual is evaluated.
ResidualPoints == [1..Len(FluxNames) -> ConstantValues \cup {0}]

\* C18: for every fixed flux f with value v the assembled system has a row
\* with 1 at f's index and stored constant -v, the residual A x + b of that
\* row is zero exactly when x[f] = v, and every start point the generator
\* returns, and every unfitted result, has x[f] = v.
C18_FixedFluxSign ==
    pc \notin {"idle", "assemble", "raised"} =>
        \A j \in 1..Len(constant_flux_dict) :
            LET f   == constant_flux_dict[j][1]
                v   == constant_flux_dict[j][2]
                r   == Len(balance_list) + j
                idx == FluxIndex(FluxNames, f)
            IN  /\ \A i \in 1..Len(FluxNames) :
                      complete_balance_matrix[r][i] = (IF i = idx THEN 1 ELSE 0)
                /\ complete_balance_vector[r] + v = 0
                /\ \A x \in ResidualPoints :
                      (eq_func(complete_balance_matrix, complete_balance_vector, x)[r] = 0)
                          <=> (x[idx] = v)
                /\ \A n \in 1..Len(generator_returns) :
                      generator_returns[n] # None => generator_returns[n][idx] = v
                /\ (Returned /\ ~fitted /\ result.success) =>
                      DictGet(result.result_dict, f) = v

\* An unfitted case with the fixed flux f2 = -4 has returned a result with
\* that value.
C18_Witness ==
    /\ pc = "done"
    /\ ~fitted
    /\ constant_flux_dict = << <<"f2", -4>> >>
    /\ result.success
    /\ DictGet(result.result_dict, "f2") = -4
    /\ complete_balance_vector[Len(complete_balance_vector)] = 4

\* ------------------------------------------------------------------------
\* Properties of the balance rows (BuilderSpec)
\* ------------------------------------------------------------------------

RECURSIVE SumFrom(_, _)
SumFrom(row, i) == IF i > Len(row) THEN 0 ELSE row[i] + SumFrom(row, i + 1)

\* The sum of the entries of a row
RowSum(row) == SumFrom(row, 1)

\* The balance_dict of row r has non-empty, disjoint input and output sets.
DisjointNonEmpty(r) ==
    /\ Range(balance_list[r].input) # {}
    /\ Range(balance_list[r].output) # {}
    /\ Range(balance_list[r].input) \cap Range(balance_list[r].output) = {}

\* Row r has -1 at each input index, +1 at each output index, 0 elsewhere,
\* and right-hand side 0.
RowAsSpecified(r) ==
    /\ \A i \in 1..Len(BuilderFluxNames) :
          flux_balance_multiply_array_list[r][i] =
              IF BuilderFluxNames[i] \in Range(balance_list[r].input) THEN -1
              ELSE IF BuilderFluxNames[i] \in Range(balance_list[r].output) THEN 1
              ELSE 0
    /\ flux_balance_constant_vector_list[r] = 0

\* C9 (as claimed): for disjoint, non-empty input and output sets the row has
\* -1 at each input index, +1 at each output index, 0 elsewhere, right-hand
\* side 0, and its entries sum to zero.
C9_RowSumsToZero ==
    \A r \in 1..Len(flux_balance_multiply_array_list) :
        DisjointNonEmpty(r) =>
            /\ RowAsSpecified(r)
            /\ RowSum(flux_balance_multiply_array_list[r]) = 0

\* C9 (as amended): for disjoint, non-empty input and output sets the row has
\* -1 at each input index, +1 at each output index, 0 elsewhere and right-hand
\* side 0; its entries sum to the number of distinct outputs minus the number
\* of distinct inputs, which is zero exactly when the two sets have the same
\* size.
C9_RowSumIsOutputsMinusInputs ==
    \A r \in 1..Len(flux_balance_multiply_array_list) :
        DisjointNonEmpty(r) =>
            /\ RowAsSpecified(r)
            /\ RowSum(flux_balance_multiply_array_list[r]) =
                  Cardinality(Range(balance_list[r].output))
                  - Cardinality(Range(balance_list[r].input))

C9_Witness ==
    /\ builder_pc = "built"
    /\ Len(balance_list) = 2
    /\ balance_list[1] = [input |-> <<"f2", "f3">>, output |-> <<"f1">>]
    /\ flux_balance_multiply_array_list[1] = <<1, -1, -1>>
    /\ DisjointNonEmpty(2)
    /\ RowSum(flux_balance_multiply_array_list[2]) = 1

\* C16 (as claimed): a balance_dict that lists a flux both as input and as
\* output is accepted, and its row has coefficient zero at that flux's index.
C16_SharedFluxCancels ==
    /\ \A n \in 1..Len(flux_balance_multiply_array_list) :
          \A f \in Range(balance_list[n].input) \cap Range(balance_list[n].output) :
              flux_balance_multiply_array_list[n][FluxIndex(BuilderFluxNames, f)] = 0
    /\ builder_pc = "raised" =>
          AbsentFluxName \in
              Range(balance_list[Len(flux_balance_multiply_array_list) + 1].input
                    \o balance_list[Len(flux_balance_multiply_array_list) + 1].output)

\* ------------------------------------------------------------------------
\* Properties of the MID constraint rows (MidSpec)
\* ------------------------------------------------------------------------

\* C17 (as claimed): mid_constraint_constructor returns only when, in every
\* mid_constraint_dict, every flux's MID vector is as long as the target
\* vector; a longer or a shorter one makes it raise.
C17_MismatchedLengthRejected ==
    mid_pc = "built" =>
        \A n \in 1..Len(mid_constraint_list) :
            \A k \in 1..Len(mid_constraint_list[n]) :
                Len(mid_constraint_list[n][k][2])
                    = Len(ItemOf(mid_constraint_list[n], target_label))

====
